---- MODULE Spec2Model ----
(***************************************************************************)
(* PluginRemoveService (src/meltano/core/plugin_remove_service.py).        *)
(*                                                                         *)
(* remove_plugins drives remove_plugin over a sequence of plugins and      *)
(* folds the four removal managers' plugin_removed flags into a pair       *)
(* (removed_plugins, num_plugins); remove_plugin builds the four managers  *)
(* of one plugin and calls remove() on each.  The model follows the two    *)
(* methods statement by statement.  The removal managers and the two       *)
(* status callbacks are collaborators: every outcome they can have         *)
(* (plugin_removed true or false, or an exception) is a choice of the      *)
(* environment.                                                            *)
(***************************************************************************)
EXTENDS Integers, Sequences, FiniteSets

\* Longest plugin sequence handed to remove_plugins.
MaxPlugins == 2

VARIABLES
    entry,              \* the method the caller invoked
    callbacks,          \* the callbacks the caller passed
    plugins,            \* remove_plugins: the argument `plugins`
    pc,                 \* the statement about to execute
    num_plugins,        \* remove_plugins: local num_plugins
    removed_plugins,    \* remove_plugins: local removed_plugins
    i,                  \* remove_plugins: plugins consumed by `for plugin in plugins`
    plugin,             \* the current plugin (loop variable / remove_plugin argument)
    removal_managers,   \* remove_plugins: local removal_managers
    any_not_removed,    \* remove_plugins: local any_not_removed
    remove_managers,    \* remove_plugin: local remove_managers
    manager,            \* managers consumed by the running `for manager in ...`
    created,            \* manager objects constructed so far
    trace,              \* every call made on a collaborator, in order
    result,             \* the value returned to the caller, <<>> while there is none
    fault               \* the call whose exception left the service, "none" if none

vars == <<entry, callbacks, plugins, pc, num_plugins, removed_plugins, i, plugin,
          removal_managers, any_not_removed, remove_managers, manager, created,
          trace, result, fault>>

----------------------------------------------------------------------------
(* Inputs *)

\* Plugins are opaque to the service, so a sequence is taken up to renaming:
\* the first plugin is 1 and each later one is an earlier plugin or the next
\* new one.  Repeated plugins are included.
PluginSeqs ==
    { s \in UNION { [1..n -> 1..MaxPlugins] : n \in 0..MaxPlugins } :
        \A j \in DOMAIN s :
            s[j] <= 1 + Cardinality({ s[h] : h \in 1..(j-1) }) }

\* "noop": both callbacks left at their default (utils.noop).
\* "tamper": caller callbacks that return normally and write to the manager
\*           they are handed.
\* "raising": caller callbacks any call of which may raise.
CallbackModes == {"noop", "tamper", "raising"}

EntryPoints == {"remove_plugins", "remove_plugin"}

\* The four manager classes in the order remove_plugin builds them.
RemoveManagerClasses ==
    << "DbRemoveManager",
       "MeltanoYmlRemoveManager",
       "InstallationRemoveManager",
       "LockedDefinitionRemoveManager" >>

----------------------------------------------------------------------------
(* Collaborators *)

\* A freshly constructed PluginLocationRemoveManager: remove() not yet run.
NewManager(cls, p, id) ==
    [cls |-> cls, plugin |-> p, inst |-> id, removes |-> 0, plugin_removed |-> FALSE]

\* manager.remove() returning normally with the outcome `flag`.
RemoveEffect(mgr, flag) ==
    [mgr EXCEPT !.removes = @ + 1, !.plugin_removed = flag]

\* What a caller's removal_manager_status_cb does to the managers: nothing by
\* default; the tampering callback inverts the flag of the manager it is handed.
StatusCbEffect(mode, mgrs, j) ==
    IF mode = "tamper"
    THEN [mgrs EXCEPT ![j].plugin_removed = ~@]
    ELSE mgrs

Event(op, idx, p, cls, id, res) ==
    [op |-> op, idx |-> idx, plugin |-> p, cls |-> cls, inst |-> id, res |-> res]

----------------------------------------------------------------------------
(* Statements of remove_plugins and remove_plugin *)

\* Slip: the plugins are counted as a set, a repeated plugin once.
NumPluginsDistinct(ps) == Cardinality({ ps[j] : j \in 1..Len(ps) })

\* num_plugins: int = len(plugins)
NumPlugins(ps) == Len(ps)

\* Slip: the counter starts at zero although the loop only counts down.
InitialRemovedZero(n) == 0

\* removed_plugins: int = num_plugins
InitialRemoved(n) == n

\* Slip: the running flag is overwritten instead of accumulated.
FoldLastOnly(flag, any) == ~flag

\* any_not_removed = not manager.plugin_removed or any_not_removed
FoldNotRemoved(flag, any) == (~flag) \/ any

\* Slip: lines 69 and 70 exchanged, the flag is read after the callback ran.
StatusLoopBodyCallbackFirst(mode, mgrs, j, any) ==
    [any |-> FoldNotRemoved(StatusCbEffect(mode, mgrs, j)[j].plugin_removed, any),
     mgrs |-> StatusCbEffect(mode, mgrs, j)]

\* The body of `for manager in removal_managers`: the flag is read, then the
\* callback is called with the manager.
StatusLoopBody(mode, mgrs, j, any) ==
    [any |-> FoldNotRemoved(mgrs[j].plugin_removed, any),
     mgrs |-> StatusCbEffect(mode, mgrs, j)]

\* if any_not_removed: removed_plugins -= 1
DecrementIfAny(removed, any) == IF any THEN removed - 1 ELSE removed

\* Slip: the tuple lists the installation manager before the meltano.yml one.
ConstructedManagersSwapped(p, base) ==
    [j \in 1..Len(RemoveManagerClasses) |->
        NewManager(RemoveManagerClasses[CASE j = 2 -> 3 [] j = 3 -> 2 [] OTHER -> j],
                   p, base + j)]

\* remove_managers = (DbRemoveManager(plugin, self.project), ...)
ConstructedManagers(p, base) ==
    [j \in 1..Len(RemoveManagerClasses) |->
        NewManager(RemoveManagerClasses[j], p, base + j)]

Init ==
    /\ entry \in EntryPoints
    /\ callbacks \in CallbackModes
    /\ \/ /\ entry = "remove_plugins"
          /\ plugins \in PluginSeqs
          /\ plugin = 0
          /\ pc = "remove_plugins"
       \/ /\ entry = "remove_plugin"
          /\ callbacks = "noop"
          /\ plugins = <<>>
          /\ plugin = 1
          /\ pc = "remove_plugin"
    /\ num_plugins = 0
    /\ removed_plugins = 0
    /\ i = 0
    /\ removal_managers = <<>>
    /\ any_not_removed = FALSE
    /\ remove_managers = <<>>
    /\ manager = 0
    /\ created = 0
    /\ trace = <<>>
    /\ result = <<>>
    /\ fault = "none"

\* Lines 59-60.
CallRemovePlugins ==
    /\ pc = "remove_plugins"
    /\ num_plugins' = NumPlugins(plugins)
    /\ removed_plugins' = InitialRemoved(num_plugins')
    /\ pc' = "for_plugin"
    /\ UNCHANGED <<entry, callbacks, plugins, i, plugin, removal_managers,
                   any_not_removed, remove_managers, manager, created, trace,
                   result, fault>>

\* Slip: the loop walks the input from its end.
NextPluginReversed ==
    /\ pc = "for_plugin"
    /\ i < Len(plugins)
    /\ i' = i + 1
    /\ plugin' = plugins[Len(plugins) - i]
    /\ pc' = "plugin_status_cb"
    /\ UNCHANGED <<entry, callbacks, plugins, num_plugins, removed_plugins,
                   removal_managers, any_not_removed, remove_managers, manager,
                   created, trace, result, fault>>

\* Line 62: the loop takes the next plugin.
NextPlugin ==
    /\ pc = "for_plugin"
    /\ i < Len(plugins)
    /\ i' = i + 1
    /\ plugin' = plugins[i + 1]
    /\ pc' = "plugin_status_cb"
    /\ UNCHANGED <<entry, callbacks, plugins, num_plugins, removed_plugins,
                   removal_managers, any_not_removed, remove_managers, manager,
                   created, trace, result, fault>>

\* Line 63: plugin_status_cb(plugin) returns.
PluginStatusCb ==
    /\ pc = "plugin_status_cb"
    /\ trace' = Append(trace, Event("plugin_status_cb", i, plugin, "none", 0, "ok"))
    /\ pc' = "remove_plugin"
    /\ UNCHANGED <<entry, callbacks, plugins, num_plugins, removed_plugins, i,
                   plugin, removal_managers, any_not_removed, remove_managers,
                   manager, created, result, fault>>

\* Line 63: plugin_status_cb(plugin) raises; nothing catches it.
PluginStatusCbRaises ==
    /\ pc = "plugin_status_cb"
    /\ callbacks = "raising"
    /\ trace' = Append(trace, Event("plugin_status_cb", i, plugin, "none", 0, "fault"))
    /\ pc' = "raised"
    /\ fault' = "plugin_status_cb"
    /\ UNCHANGED <<entry, callbacks, plugins, num_plugins, removed_plugins, i,
                   plugin, removal_managers, any_not_removed, remove_managers,
                   manager, created, result>>

\* Slip: the managers built for a plugin are kept and handed out again when
\* the next plugin is the same one.
ConstructManagersCached ==
    /\ pc = "remove_plugin"
    /\ remove_managers' =
           IF removal_managers # <<>> /\ removal_managers[1].plugin = plugin
           THEN removal_managers
           ELSE ConstructedManagers(plugin, created)
    /\ created' =
           IF removal_managers # <<>> /\ removal_managers[1].plugin = plugin
           THEN created
           ELSE created + Len(remove_managers')
    /\ manager' = 0
    /\ pc' = "remove"
    /\ UNCHANGED <<entry, callbacks, plugins, num_plugins, removed_plugins, i,
                   plugin, removal_managers, any_not_removed, trace, result, fault>>

\* Lines 92-97: remove_plugin constructs its four managers.
ConstructManagers ==
    /\ pc = "remove_plugin"
    /\ remove_managers' = ConstructedManagers(plugin, created)
    /\ created' = created + Len(remove_managers')
    /\ manager' = 0
    /\ pc' = "remove"
    /\ UNCHANGED <<entry, callbacks, plugins, num_plugins, removed_plugins, i,
                   plugin, removal_managers, any_not_removed, trace, result, fault>>

\* Slip: the loop over the managers stops at the first one that did not remove.
RemoveStopsOnFalse ==
    /\ pc = "remove"
    /\ manager < Len(remove_managers)
    /\ \E flag \in BOOLEAN :
        LET mgr == remove_managers[manager + 1] IN
        /\ remove_managers' =
               [remove_managers EXCEPT ![manager + 1] = RemoveEffect(mgr, flag)]
        /\ trace' = Append(trace,
               Event("remove", i, plugin, mgr.cls, mgr.inst,
                     IF flag THEN "true" ELSE "false"))
        /\ manager' = IF flag THEN manager + 1 ELSE Len(remove_managers)
    /\ UNCHANGED <<entry, callbacks, plugins, pc, num_plugins, removed_plugins, i,
                   plugin, removal_managers, any_not_removed, created, result, fault>>

\* Slip: the status callback is called right after each remove(), inside the
\* loop over the managers.
RemoveReportsAtOnce ==
    /\ pc = "remove"
    /\ manager < Len(remove_managers)
    /\ \E flag \in BOOLEAN :
        LET mgr == remove_managers[manager + 1] IN
        /\ remove_managers' =
               [remove_managers EXCEPT ![manager + 1] = RemoveEffect(mgr, flag)]
        /\ trace' = trace \o
               << Event("remove", i, plugin, mgr.cls, mgr.inst,
                        IF flag THEN "true" ELSE "false"),
                  Event("removal_manager_status_cb", i, plugin, mgr.cls, mgr.inst, "ok") >>
    /\ manager' = manager + 1
    /\ UNCHANGED <<entry, callbacks, plugins, pc, num_plugins, removed_plugins, i,
                   plugin, removal_managers, any_not_removed, created, result, fault>>

\* Slip: a manager that reports plugin_removed = false is given a second try.
RemoveRetriesOnce ==
    /\ pc = "remove"
    /\ manager < Len(remove_managers)
    /\ \E flag \in BOOLEAN :
        LET mgr == remove_managers[manager + 1] IN
        /\ remove_managers' =
               [remove_managers EXCEPT ![manager + 1] = RemoveEffect(mgr, flag)]
        /\ trace' = Append(trace,
               Event("remove", i, plugin, mgr.cls, mgr.inst,
                     IF flag THEN "true" ELSE "false"))
        /\ manager' = IF ~flag /\ mgr.removes = 0 THEN manager ELSE manager + 1
    /\ UNCHANGED <<entry, callbacks, plugins, pc, num_plugins, removed_plugins, i,
                   plugin, removal_managers, any_not_removed, created, result, fault>>

\* Lines 99-100: manager.remove() returns, leaving plugin_removed true or false.
Remove ==
    /\ pc = "remove"
    /\ manager < Len(remove_managers)
    /\ \E flag \in BOOLEAN :
        LET mgr == remove_managers[manager + 1] IN
        /\ remove_managers' =
               [remove_managers EXCEPT ![manager + 1] = RemoveEffect(mgr, flag)]
        /\ trace' = Append(trace,
               Event("remove", i, plugin, mgr.cls, mgr.inst,
                     IF flag THEN "true" ELSE "false"))
    /\ manager' = manager + 1
    /\ UNCHANGED <<entry, callbacks, plugins, pc, num_plugins, removed_plugins, i,
                   plugin, removal_managers, any_not_removed, created, result, fault>>

\* Slip: remove_plugins isolates a faulting plugin and goes on to the next one.
RemoveRaisesSkipsPlugin ==
    /\ pc = "remove"
    /\ manager < Len(remove_managers)
    /\ LET mgr == remove_managers[manager + 1] IN
        trace' = Append(trace, Event("remove", i, plugin, mgr.cls, mgr.inst, "fault"))
    /\ pc' = IF entry = "remove_plugins" THEN "for_plugin" ELSE "raised"
    /\ fault' = "remove"
    /\ UNCHANGED <<entry, callbacks, plugins, num_plugins, removed_plugins, i,
                   plugin, removal_managers, any_not_removed, remove_managers,
                   manager, created, result>>

\* Slip: remove_plugins catches the fault, leaves the loop and returns its counts.
RemoveRaisesReturnsCounts ==
    /\ pc = "remove"
    /\ manager < Len(remove_managers)
    /\ LET mgr == remove_managers[manager + 1] IN
        trace' = Append(trace, Event("remove", i, plugin, mgr.cls, mgr.inst, "fault"))
    /\ pc' = IF entry = "remove_plugins" THEN "for_plugin" ELSE "raised"
    /\ i' = Len(plugins)
    /\ fault' = "remove"
    /\ UNCHANGED <<entry, callbacks, plugins, num_plugins, removed_plugins,
                   plugin, removal_managers, any_not_removed, remove_managers,
                   manager, created, result>>

\* Slip: remove_plugin swallows the exception and goes on to the next manager.
RemoveRaisesSwallowed ==
    /\ pc = "remove"
    /\ manager < Len(remove_managers)
    /\ LET mgr == remove_managers[manager + 1] IN
        trace' = Append(trace, Event("remove", i, plugin, mgr.cls, mgr.inst, "fault"))
    /\ manager' = manager + 1
    /\ fault' = "remove"
    /\ UNCHANGED <<entry, callbacks, plugins, pc, num_plugins, removed_plugins, i,
                   plugin, removal_managers, any_not_removed, remove_managers,
                   created, result>>

\* Lines 99-100: manager.remove() raises; neither method has a handler.
RemoveRaises ==
    /\ pc = "remove"
    /\ manager < Len(remove_managers)
    /\ LET mgr == remove_managers[manager + 1] IN
        trace' = Append(trace, Event("remove", i, plugin, mgr.cls, mgr.inst, "fault"))
    /\ pc' = "raised"
    /\ fault' = "remove"
    /\ UNCHANGED <<entry, callbacks, plugins, num_plugins, removed_plugins, i,
                   plugin, removal_managers, any_not_removed, remove_managers,
                   manager, created, result>>

\* Slip: the loop over the managers leaves out the last one (off by one), so
\* remove_plugin returns with its remove() not called.
ReturnToRemovePluginsEarly ==
    /\ pc = "remove"
    /\ manager = Len(remove_managers) - 1
    /\ entry = "remove_plugins"
    /\ removal_managers' = remove_managers
    /\ remove_managers' = <<>>
    /\ any_not_removed' = FALSE
    /\ manager' = 0
    /\ pc' = "for_manager"
    /\ UNCHANGED <<entry, callbacks, plugins, num_plugins, removed_plugins, i,
                   plugin, created, trace, result, fault>>

\* Line 102 into lines 65 and 67: remove_plugin returns to remove_plugins.
ReturnToRemovePlugins ==
    /\ pc = "remove"
    /\ manager = Len(remove_managers)
    /\ entry = "remove_plugins"
    /\ removal_managers' = remove_managers
    /\ remove_managers' = <<>>
    /\ any_not_removed' = FALSE
    /\ manager' = 0
    /\ pc' = "for_manager"
    /\ UNCHANGED <<entry, callbacks, plugins, num_plugins, removed_plugins, i,
                   plugin, created, trace, result, fault>>

\* Line 102: remove_plugin returns to an outside caller.
ReturnManagers ==
    /\ pc = "remove"
    /\ manager = Len(remove_managers)
    /\ entry = "remove_plugin"
    /\ result' = remove_managers
    /\ pc' = "returned"
    /\ UNCHANGED <<entry, callbacks, plugins, num_plugins, removed_plugins, i,
                   plugin, removal_managers, any_not_removed, remove_managers,
                   manager, created, trace, fault>>

\* Slip: the callback is called only for a manager that did not remove.
ManagerStatusOnlyFailures ==
    /\ pc = "for_manager"
    /\ manager < Len(removal_managers)
    /\ LET body == StatusLoopBody(callbacks, removal_managers, manager + 1,
                                  any_not_removed)
           mgr  == removal_managers[manager + 1]
       IN  /\ any_not_removed' = body.any
           /\ removal_managers' = IF mgr.plugin_removed THEN removal_managers
                                                         ELSE body.mgrs
           /\ trace' = IF mgr.plugin_removed THEN trace ELSE Append(trace,
                  Event("removal_manager_status_cb", i, plugin, mgr.cls, mgr.inst, "ok"))
    /\ manager' = manager + 1
    /\ UNCHANGED <<entry, callbacks, plugins, pc, num_plugins, removed_plugins, i,
                   plugin, remove_managers, created, result, fault>>

\* Lines 68-70: one pass of the loop body, the callback returning.
ManagerStatus ==
    /\ pc = "for_manager"
    /\ manager < Len(removal_managers)
    /\ LET body == StatusLoopBody(callbacks, removal_managers, manager + 1,
                                  any_not_removed)
           mgr  == removal_managers[manager + 1]
       IN  /\ any_not_removed' = body.any
           /\ removal_managers' = body.mgrs
           /\ trace' = Append(trace,
                  Event("removal_manager_status_cb", i, plugin, mgr.cls, mgr.inst, "ok"))
    /\ manager' = manager + 1
    /\ UNCHANGED <<entry, callbacks, plugins, pc, num_plugins, removed_plugins, i,
                   plugin, remove_managers, created, result, fault>>

\* Slip: an exception of the status callback is suppressed and the loop goes on.
ManagerStatusRaisesSuppressed ==
    /\ pc = "for_manager"
    /\ manager < Len(removal_managers)
    /\ callbacks = "raising"
    /\ LET mgr == removal_managers[manager + 1] IN
        /\ any_not_removed' = FoldNotRemoved(mgr.plugin_removed, any_not_removed)
        /\ trace' = Append(trace,
               Event("removal_manager_status_cb", i, plugin, mgr.cls, mgr.inst, "fault"))
    /\ manager' = manager + 1
    /\ fault' = "removal_manager_status_cb"
    /\ UNCHANGED <<entry, callbacks, plugins, pc, num_plugins, removed_plugins, i,
                   plugin, removal_managers, remove_managers, created, result>>

\* Lines 68-70: the flag is folded, then removal_manager_status_cb raises.
ManagerStatusRaises ==
    /\ pc = "for_manager"
    /\ manager < Len(removal_managers)
    /\ callbacks = "raising"
    /\ LET mgr == removal_managers[manager + 1] IN
        /\ any_not_removed' = FoldNotRemoved(mgr.plugin_removed, any_not_removed)
        /\ trace' = Append(trace,
               Event("removal_manager_status_cb", i, plugin, mgr.cls, mgr.inst, "fault"))
    /\ pc' = "raised"
    /\ fault' = "removal_manager_status_cb"
    /\ UNCHANGED <<entry, callbacks, plugins, num_plugins, removed_plugins, i,
                   plugin, removal_managers, remove_managers, manager, created,
                   result>>

\* The remove() calls made for the plugin in hand.
RemovesOfCurrent == SelectSeq(trace, LAMBDA e : e.op = "remove" /\ e.idx = i)

\* Slip: the counter is lowered once for every manager that did not remove.
EndPluginPerManager ==
    /\ pc = "for_manager"
    /\ manager = Len(removal_managers)
    /\ removed_plugins' = removed_plugins -
           Cardinality({ e \in { RemovesOfCurrent[j] : j \in 1..Len(RemovesOfCurrent) } :
                           e.res = "false" })
    /\ manager' = 0
    /\ pc' = "for_plugin"
    /\ UNCHANGED <<entry, callbacks, plugins, num_plugins, i, plugin,
                   removal_managers, any_not_removed, remove_managers, created,
                   trace, result, fault>>

\* Lines 72-73, after the inner loop is exhausted.
EndPlugin ==
    /\ pc = "for_manager"
    /\ manager = Len(removal_managers)
    /\ removed_plugins' = DecrementIfAny(removed_plugins, any_not_removed)
    /\ manager' = 0
    /\ pc' = "for_plugin"
    /\ UNCHANGED <<entry, callbacks, plugins, num_plugins, i, plugin,
                   removal_managers, any_not_removed, remove_managers, created,
                   trace, result, fault>>

\* Line 75.
ReturnCounts ==
    /\ pc = "for_plugin"
    /\ i >= Len(plugins)
    /\ result' = <<removed_plugins, num_plugins>>
    /\ pc' = "returned"
    /\ UNCHANGED <<entry, callbacks, plugins, num_plugins, removed_plugins, i,
                   plugin, removal_managers, any_not_removed, remove_managers,
                   manager, created, trace, fault>>

Next ==
    \/ CallRemovePlugins
    \/ NextPlugin
    \/ PluginStatusCb
    \/ PluginStatusCbRaises
    \/ ConstructManagers
    \/ Remove
    \/ RemoveRaises
    \/ ReturnToRemovePlugins
    \/ ReturnManagers
    \/ ManagerStatus
    \/ ManagerStatusRaises
    \/ EndPlugin
    \/ ReturnCounts

Spec == Init /\ [][Next]_vars

----------------------------------------------------------------------------
----------------------------------------------------------------------------
\* The service is one synchronous call chain: the statement control has
\* reached is executed, every call on a collaborator coming back (normally
\* or with an exception).
SpecFair == Spec /\ WF_vars(Next)

(* Several calls on one service *)

\* A further call is followed only while earlier calls constructed at most
\* this many managers.
MaxEarlierManagers == 4

\* The caller, after a call has returned or raised, calls the same service
\* again.  The service keeps nothing but its project between calls (lines
\* 26-32): every local starts anew; the managers constructed so far stay
\* constructed.  The trace is that of the call in hand.
CallAgain ==
    /\ pc \in {"returned", "raised"}
    /\ created <= MaxEarlierManagers
    /\ entry' \in EntryPoints
    /\ callbacks' \in CallbackModes
    /\ \/ /\ entry' = "remove_plugins"
          /\ plugins' \in PluginSeqs
          /\ plugin' = 0
          /\ pc' = "remove_plugins"
       \/ /\ entry' = "remove_plugin"
          /\ callbacks' = "noop"
          /\ plugins' = <<>>
          /\ plugin' = 1
          /\ pc' = "remove_plugin"
    /\ num_plugins' = 0
    /\ removed_plugins' = 0
    /\ i' = 0
    /\ removal_managers' = <<>>
    /\ any_not_removed' = FALSE
    /\ remove_managers' = <<>>
    /\ manager' = 0
    /\ trace' = <<>>
    /\ result' = <<>>
    /\ fault' = "none"
    /\ UNCHANGED created

NextCalls == Next \/ CallAgain

SpecCalls == Init /\ [][NextCalls]_vars

(* remove_plugins with both callbacks left at their default, as a function *)
(* of the plugins and of the flags the managers report                     *)

\* The inner loop (lines 67-70) over the managers mgrs from position j on.
RECURSIVE DefaultAnyNotRemoved(_, _, _)
DefaultAnyNotRemoved(mgrs, j, any) ==
    IF j > Len(mgrs)
    THEN any
    ELSE LET body == StatusLoopBody("noop", mgrs, j, any)
         IN  DefaultAnyNotRemoved(body.mgrs, j + 1, body.any)

\* The managers remove_plugin returns for plugin p when they report `flags`.
DefaultManagers(p, flags) ==
    LET built == ConstructedManagers(p, 0)
    IN  [j \in 1..Len(built) |-> RemoveEffect(built[j], flags[j])]

\* The outer loop (lines 62-73) from the n-th plugin on.
RECURSIVE DefaultRemoved(_, _, _, _)
DefaultRemoved(ps, flags, n, removed) ==
    IF n > Len(ps)
    THEN removed
    ELSE DefaultRemoved(ps, flags, n + 1,
             DecrementIfAny(removed,
                 DefaultAnyNotRemoved(DefaultManagers(ps[n], flags[n]), 1, FALSE)))

\* The pair returned at line 75.
DefaultResult(ps, flags) ==
    << DefaultRemoved(ps, flags, 1, InitialRemoved(NumPlugins(ps))), NumPlugins(ps) >>

\* The remove() calls of the run, as <<position, plugin, class>>.
DefaultRemoveCalls(ps) ==
    LET w == Len(RemoveManagerClasses)
    IN  [h \in 1..(Len(ps) * w) |->
            << ((h - 1) \div w) + 1,
               ps[((h - 1) \div w) + 1],
               ConstructedManagers(ps[((h - 1) \div w) + 1], 0)[((h - 1) % w) + 1].cls >>]

----------------------------------------------------------------------------
(* Reading the trace *)

Classes == { RemoveManagerClasses[j] : j \in 1..Len(RemoveManagerClasses) }

\* The remove() calls made for the n-th plugin of the batch (n = 0 for a
\* direct remove_plugin call), in call order.
RemovesOf(n) == SelectSeq(trace, LAMBDA e : e.op = "remove" /\ e.idx = n)

\* The callback calls made for the n-th plugin, in call order.
CallbacksOf(n) == SelectSeq(trace, LAMBDA e : e.op # "remove" /\ e.idx = n)

ClsOf(events) == [j \in 1..Len(events) |-> events[j].cls]
ResOf(events) == [j \in 1..Len(events) |-> events[j].res]

IsPrefix(s, t) == Len(s) <= Len(t) /\ \A j \in 1..Len(s) : s[j] = t[j]

\* The plugins of the input all of whose managers reported plugin_removed.
FullyRemoved ==
    { n \in 1..Len(plugins) :
        ResOf(RemovesOf(n)) = [j \in 1..Len(RemoveManagerClasses) |-> "true"] }

\* The remove() calls that completed: their effect is on the backends.
AppliedRemovals ==
    { <<trace[j].idx, trace[j].cls>> :
        j \in { h \in 1..Len(trace) : trace[h].op = "remove" /\ trace[h].res # "fault" } }

----------------------------------------------------------------------------
(* Claims *)

\* C1: when remove_plugins returns, the first component of the pair is the
\* number of input plugins for which all four managers reported
\* plugin_removed = true.
C1_RemovedCountsFullyRemoved ==
    (entry = "remove_plugins" /\ pc = "returned")
        => result[1] = Cardinality(FullyRemoved)

\* C1 witness: two plugins, one with exactly one manager reporting false and
\* one with all four true; the count returned is 1.
C1_Witness ==
    /\ entry = "remove_plugins" /\ pc = "returned"
    /\ Len(plugins) = 2
    /\ ResOf(RemovesOf(1)) = <<"true", "true", "false", "true">>
    /\ ResOf(RemovesOf(2)) = <<"true", "true", "true", "true">>
    /\ result[1] = 1

\* C2: once a remove() has raised inside remove_plugins at plugin N, no pair
\* is returned, the raising call is the last call ever made (nothing is
\* invoked for plugins N+1..end), and the completed removals are exactly
\* those of plugins 1..N-1 and of plugin N's managers before the fault:
\* none is undone.
C2_RemoveFaultPropagates ==
    (entry = "remove_plugins" /\ fault = "remove") =>
        /\ result = <<>>
        /\ trace[Len(trace)].op = "remove" /\ trace[Len(trace)].res = "fault"
        /\ trace[Len(trace)].idx = i
        /\ \A j \in 1..Len(trace) : trace[j].idx <= i
        /\ AppliedRemovals =
              { <<n, c>> : n \in 1..(i - 1), c \in Classes }
              \cup { <<i, RemoveManagerClasses[j]>> : j \in 1..manager }

\* C2 witness: the fault hits plugin 2 of 2 after plugin 1 was processed and
\* after two of plugin 2's managers ran.
C2_Witness ==
    /\ entry = "remove_plugins" /\ fault = "remove"
    /\ Len(plugins) = 2 /\ i = 2 /\ manager = 2
    /\ Len(RemovesOf(1)) = 4

\* C3 as stated: after a remove() fault the batch is not aborted, the service
\* goes on while plugins remain.
C3_FaultDoesNotAbortBatch ==
    (entry = "remove_plugins" /\ fault = "remove" /\ i < Len(plugins))
        => ENABLED Next

\* C3 amended: a remove() fault aborts the batch; the exception leaves
\* remove_plugins, which takes no further step and returns nothing.
C3_FaultAbortsBatch ==
    (entry = "remove_plugins" /\ fault = "remove")
        => (pc = "raised" /\ ~ENABLED Next /\ result = <<>>)

\* C3 witness: a remove() fault at plugin 1 while plugin 2 is still to come.
C3_Witness ==
    /\ entry = "remove_plugins" /\ fault = "remove"
    /\ i = 1 /\ Len(plugins) = 2

\* C4: for every plugin the remove() calls follow the order database,
\* meltano.yml, installation, locked definition, without a gap or a repeat,
\* and unless a remove() raised all four managers have been called exactly
\* once by the time remove_plugin returns, whatever flags they reported.
C4_RemoveOrderUnconditional ==
    /\ \A n \in 0..Len(plugins) :
          IsPrefix(ClsOf(RemovesOf(n)), RemoveManagerClasses)
    /\ (pc \in {"for_manager", "for_plugin", "returned"}) =>
          /\ \A n \in (IF entry = "remove_plugins" THEN 1..i ELSE {0}) :
                ClsOf(RemovesOf(n)) = RemoveManagerClasses
    /\ (pc = "for_manager") =>
          \A j \in 1..Len(removal_managers) : removal_managers[j].removes = 1
    /\ (pc = "returned" /\ entry = "remove_plugin") =>
          \A j \in 1..Len(result) : result[j].removes = 1

\* C4 witness: remove_plugin has returned although its first manager (the
\* database one) reported plugin_removed = false.
C4_Witness ==
    /\ pc = "for_manager"
    /\ ResOf(RemovesOf(i)) = <<"false", "true", "false", "true">>

\* The flags the managers reported, per plugin of the input.
ReportedFlags ==
    [n \in 1..Len(plugins) |->
        [j \in 1..Len(RemovesOf(n)) |-> RemovesOf(n)[j].res = "true"]]

\* The remove() calls of the run, as <<position, plugin, class>>.
RemoveCalls ==
    LET rs == SelectSeq(trace, LAMBDA e : e.op = "remove")
    IN  [h \in 1..Len(rs) |-> <<rs[h].idx, rs[h].plugin, rs[h].cls>>]

\* The callbacks a fault-free pass makes for the n-th plugin, as <<op, plugin, class>>.
ExpectedCallbacks(n) ==
    << <<"plugin_status_cb", plugins[n], "none">> >>
    \o [j \in 1..Len(RemoveManagerClasses) |->
            <<"removal_manager_status_cb", plugins[n], RemoveManagerClasses[j]>>]

\* C5: when remove_plugins returns, the callbacks made for each plugin of the
\* input are one plugin_status_cb followed by four
\* removal_manager_status_cb, for the database, meltano.yml, installation
\* and locked-definition managers in that order, and none were made for
\* anything else.
C5_CallbackCountAndOrder ==
    (entry = "remove_plugins" /\ pc = "returned") =>
        /\ \A n \in 1..Len(plugins) :
              LET cbs == CallbacksOf(n)
              IN  [j \in 1..Len(cbs) |-> <<cbs[j].op, cbs[j].plugin, cbs[j].cls>>]
                     = ExpectedCallbacks(n)
        /\ \A j \in 1..Len(trace) : trace[j].idx \in 1..Len(plugins)

\* C5 witness: a returned batch of two plugins in which managers reported
\* both true and false.
C5_Witness ==
    /\ entry = "remove_plugins" /\ pc = "returned"
    /\ Len(plugins) = 2
    /\ ResOf(RemovesOf(1)) = <<"true", "false", "true", "true">>
    /\ Len(CallbacksOf(2)) = 5

\* C6: from line 59 on num_plugins is the length of the input sequence,
\* repeated plugins counted, and so is the second component returned.
C6_AttemptedIsInputLength ==
    (entry = "remove_plugins" /\ pc # "remove_plugins") =>
        /\ num_plugins = Len(plugins)
        /\ (pc = "returned" => result[2] = Len(plugins))

\* C6 witness: the same plugin given twice, a manager reporting false; the
\* second component returned is 2.
C6_Witness ==
    /\ entry = "remove_plugins" /\ pc = "returned"
    /\ plugins = <<1, 1>>
    /\ "false" \in { trace[j].res : j \in 1..Len(trace) }
    /\ result[2] = 2

\* C7: from line 60 on 0 <= removed_plugins <= num_plugins, and the pair
\* returned satisfies 0 <= result[1] <= result[2].
C7_RemovedWithinBounds ==
    (entry = "remove_plugins" /\ pc # "remove_plugins") =>
        /\ 0 <= removed_plugins /\ removed_plugins <= num_plugins
        /\ (pc = "returned" => (0 <= result[1] /\ result[1] <= result[2]))

\* C7 witness: both plugins of a batch were partially removed; the pair is (0, 2).
C7_Witness ==
    /\ entry = "remove_plugins" /\ pc = "returned"
    /\ result = <<0, 2>>

\* C8: whatever non-raising callbacks the caller passed, the pair returned
\* and the sequence of remove() calls are those of the run with both
\* callbacks defaulted on the same plugins and the same manager outcomes.
C8_CallbacksDoNotInfluence ==
    (entry = "remove_plugins" /\ pc = "returned") =>
        /\ result = DefaultResult(plugins, ReportedFlags)
        /\ RemoveCalls = DefaultRemoveCalls(plugins)

\* C8 witness: a batch run with callbacks that overwrite the flag of every
\* manager they receive returns (1, 2).
C8_Witness ==
    /\ entry = "remove_plugins" /\ pc = "returned"
    /\ callbacks = "tamper"
    /\ result = <<1, 2>>
    /\ ResOf(RemovesOf(2)) = <<"true", "true", "true", "false">>

\* The tuple remove_plugin has just returned, <<>> in any other state.
ReturnedManagers ==
    IF entry = "remove_plugin" /\ pc = "returned" THEN result
    ELSE IF pc = "for_manager" /\ manager = 0 THEN removal_managers
    ELSE <<>>

\* C9: the tuple remove_plugin returns holds four managers of the current
\* plugin, of classes database, meltano.yml, installation, locked definition
\* in that order, each with its remove() completed once and carrying the
\* flag that call reported.
C9_ReturnsFourRemovedManagers ==
    (pc = "returned" /\ entry = "remove_plugin") \/ (pc = "for_manager" /\ manager = 0) =>
        LET rs == RemovesOf(i) IN
        /\ Len(ReturnedManagers) = 4
        /\ [j \in 1..4 |-> ReturnedManagers[j].cls] = RemoveManagerClasses
        /\ \A j \in 1..4 :
              /\ ReturnedManagers[j].plugin = plugin
              /\ ReturnedManagers[j].removes = 1
              /\ ReturnedManagers[j].plugin_removed = (rs[j].res = "true")
              /\ ReturnedManagers[j].inst = rs[j].inst

\* C9 witness: a direct remove_plugin call has returned managers with mixed flags.
C9_Witness ==
    /\ entry = "remove_plugin" /\ pc = "returned"
    /\ [j \in 1..Len(result) |-> result[j].plugin_removed] = <<TRUE, FALSE, TRUE, FALSE>>

\* C10: once the k-th manager's remove() has raised, that call is the last
\* call made, managers 1..k-1 of the plugin were each called once and
\* completed, managers k+1..4 were never called, and nothing is returned.
C10_FaultAbortsRemainingManagers ==
    (fault = "remove") =>
        LET rs == RemovesOf(i) IN
        /\ pc = "raised"
        /\ result = <<>>
        /\ \A j \in 1..Len(removal_managers), h \in 1..Len(remove_managers) :
              removal_managers[j].inst # remove_managers[h].inst
        /\ Len(rs) = manager + 1
        /\ IsPrefix(ClsOf(rs), RemoveManagerClasses)
        /\ \A j \in 1..manager : rs[j].res # "fault"
        /\ rs[manager + 1].res = "fault"
        /\ trace[Len(trace)] = rs[manager + 1]
        /\ \A j \in 1..Len(remove_managers) :
              remove_managers[j].removes = (IF j <= manager THEN 1 ELSE 0)

\* C10 witness: in a direct remove_plugin call the third manager raised
\* after the first two completed.
C10_Witness ==
    /\ entry = "remove_plugin" /\ fault = "remove"
    /\ manager = 2

\* C11: the calls made by remove_plugins follow the input order.  Calls are
\* only ever added at the end of the trace; a call that is added is made for
\* plugins[n] at its input position n; the first call is for position 1;
\* every later call is for the position of the call before it or, once that
\* position has had its plugin_status_cb, four remove() and four
\* removal_manager_status_cb, for the next position.  So no call for an
\* earlier plugin follows a call for a later one.
C11_InputOrderPreserved ==
    [][ (entry = "remove_plugins") =>
          /\ IsPrefix(trace, trace')
          /\ \A h \in (Len(trace) + 1)..Len(trace') :
                /\ trace'[h].idx \in 1..Len(plugins)
                /\ trace'[h].plugin = plugins[trace'[h].idx]
                /\ IF h = 1
                   THEN trace'[h].idx = 1
                   ELSE \/ trace'[h].idx = trace'[h - 1].idx
                        \/ /\ trace'[h].idx = trace'[h - 1].idx + 1
                           /\ Len(RemovesOf(trace'[h - 1].idx))
                                 = Len(RemoveManagerClasses)
                           /\ Len(CallbacksOf(trace'[h - 1].idx))
                                 = 1 + Len(RemoveManagerClasses)
      ]_vars

\* C11 witness: a batch of two different plugins has returned, nine calls
\* for the first followed by nine for the second.
C11_Witness ==
    /\ entry = "remove_plugins" /\ pc = "returned"
    /\ plugins = <<1, 2>>
    /\ Len(trace) = 18
    /\ trace[9].idx = 1 /\ trace[10].idx = 2

\* The plugins whose pass through lines 63-73 is complete.
Processed == IF pc \in {"for_plugin", "returned"} THEN i ELSE i - 1

\* The plugins among the first k at least one of whose managers reported
\* plugin_removed = false.
PartiallyRemoved(k) ==
    { n \in 1..k :
        \E j \in 1..Len(trace) :
            trace[j].op = "remove" /\ trace[j].idx = n /\ trace[j].res = "false" }

\* C12: from line 60 on removed_plugins is num_plugins minus the number of
\* processed plugins that had at least one manager reporting false: it
\* starts at num_plugins, never rises, and drops by exactly one for such a
\* plugin however many of its managers reported false.
C12_RemovedCountsDown ==
    (entry = "remove_plugins" /\ pc # "remove_plugins") =>
        removed_plugins = num_plugins - Cardinality(PartiallyRemoved(Processed))

\* C12 witness: the first of two plugins had three managers reporting false
\* and the counter stands at 1.
C12_Witness ==
    /\ entry = "remove_plugins" /\ pc = "for_plugin"
    /\ Len(plugins) = 2 /\ i = 1
    /\ ResOf(RemovesOf(1)) = <<"false", "true", "false", "false">>
    /\ removed_plugins = 1

\* The instances held in a tuple of managers.
InstancesOf(mgrs) == { mgrs[j].inst : j \in 1..Len(mgrs) }

\* C13: over any sequence of calls, a manager that enters remove_managers is
\* a new object (its identity above every identity handed out before, in
\* this call or an earlier one), built for the plugin in hand and not yet
\* removed; remove() is invoked only on a manager of the plugin in hand on
\* which it was not invoked before; no manager ever has remove() completed
\* twice.
C13_ManagersFreshAndUsedOnce ==
    [][ /\ created' >= created
        /\ \A j \in 1..Len(remove_managers') :
              /\ remove_managers'[j].removes <= 1
              /\ remove_managers'[j].inst <= created'
              /\ \A h \in 1..Len(remove_managers') :
                    remove_managers'[h].inst = remove_managers'[j].inst => h = j
              /\ (remove_managers'[j].inst \notin InstancesOf(remove_managers)) =>
                    /\ remove_managers'[j].inst > created
                    /\ remove_managers'[j].removes = 0
                    /\ remove_managers'[j].plugin = plugin'
        /\ (Len(trace') = Len(trace) + 1 /\ trace'[Len(trace')].op = "remove") =>
              LET e == trace'[Len(trace')] IN
              /\ \E j \in 1..Len(remove_managers) :
                    /\ remove_managers[j].inst = e.inst
                    /\ remove_managers[j].removes = 0
                    /\ remove_managers[j].plugin = e.plugin
              /\ e.plugin = plugin
              /\ \A h \in 1..Len(trace) : trace[h].inst # e.inst
      ]_vars

\* C13 witness: in a second call, after an earlier call built four managers,
\* the same plugin is given twice and its second set of managers (instances
\* 9 to 12) has been removed.
C13_Witness ==
    /\ entry = "remove_plugins" /\ pc = "for_manager"
    /\ plugins = <<1, 1>> /\ i = 2
    /\ created = 12
    /\ InstancesOf(removal_managers) = 9..12
    /\ \A j \in 1..4 : removal_managers[j].removes = 1

\* C14: a removal_manager_status_cb call is made only when nothing has
\* raised and all four remove() calls of its plugin have returned; and at
\* the moment a remove() of the plugin in hand raises, plugin_status_cb has
\* been called for that plugin and removal_manager_status_cb for none of its
\* managers (nor is it called afterwards).
C14_StatusAfterAllRemoves ==
    [][ /\ \A h \in (Len(trace) + 1)..Len(trace') :
              (trace'[h].op = "removal_manager_status_cb") =>
                  /\ fault = "none"
                  /\ Cardinality({ j \in 1..(h - 1) :
                                     /\ trace'[j].op = "remove"
                                     /\ trace'[j].idx = trace'[h].idx
                                     /\ trace'[j].res # "fault" })
                        = Len(RemoveManagerClasses)
        /\ (entry = "remove_plugins" /\ fault = "none" /\ fault' = "remove") =>
              /\ Len(CallbacksOf(i)) = 1
              /\ CallbacksOf(i)[1].op = "plugin_status_cb"
              /\ CallbacksOf(i)[1].res = "ok"
      ]_vars

\* C14 witness: the fourth remove() of the second plugin raised after three
\* completed; the only callback made for that plugin is plugin_status_cb.
C14_Witness ==
    /\ entry = "remove_plugins" /\ fault = "remove"
    /\ i = 2 /\ manager = 3
    /\ Len(CallbacksOf(2)) = 1
    /\ Len(CallbacksOf(1)) = 5

\* C15: whenever line 69 is about to read a manager's plugin_removed and
\* line 70 to pass it to removal_manager_status_cb, that manager's remove()
\* has returned: it completed once and its completed call is in the trace.
C15_FlagReadAfterRemove ==
    (pc = "for_manager" /\ manager < Len(removal_managers)) =>
        /\ removal_managers[manager + 1].removes = 1
        /\ \E j \in 1..Len(trace) :
              /\ trace[j].op = "remove"
              /\ trace[j].inst = removal_managers[manager + 1].inst
              /\ trace[j].res # "fault"

\* C15 witness: the loop is about to read the flag of the fourth manager,
\* whose remove() has returned reporting false.
C15_Witness ==
    /\ pc = "for_manager" /\ manager = 3
    /\ removal_managers[4].removes = 1
    /\ ~removal_managers[4].plugin_removed
    /\ RemovesOf(i)[4].res = "false"

\* C16: a call in which nothing raises ends by returning, and a returned
\* remove_plugins has made exactly four remove() calls for every plugin of
\* the input, each on a different manager, whatever flags were reported: a
\* false flag neither stops the batch nor makes a manager run again.
C16_PartialRemovalTerminal ==
    /\ <>(pc = "returned" \/ fault # "none")
    /\ [](( entry = "remove_plugins" /\ pc = "returned") =>
            /\ fault = "none"
            /\ \A n \in 1..Len(plugins) :
                  /\ Len(RemovesOf(n)) = Len(RemoveManagerClasses)
                  /\ Cardinality({ RemovesOf(n)[j].inst : j \in 1..Len(RemovesOf(n)) })
                        = Len(RemoveManagerClasses))

\* C16 witness: remove_plugins has returned; managers of the first plugin
\* reported false and the second plugin still got its four remove() calls.
C16_Witness ==
    /\ entry = "remove_plugins" /\ pc = "returned"
    /\ Len(plugins) = 2
    /\ ResOf(RemovesOf(1)) = <<"false", "false", "true", "true">>
    /\ Len(RemovesOf(2)) = 4
    /\ result = <<1, 2>>

\* C17: once a callback has raised at plugin N the exception has left
\* remove_plugins: nothing is returned, no further step is taken, the raising
\* call is the last call made and no call exists for a later plugin.  If it
\* was plugin_status_cb, no remove() was made for plugin N; if it was
\* removal_manager_status_cb, plugin N's four remove() calls had completed.
C17_CallbackFaultAbortsBatch ==
    (fault \in {"plugin_status_cb", "removal_manager_status_cb"}) =>
        /\ pc = "raised" /\ ~ENABLED Next
        /\ result = <<>>
        /\ trace[Len(trace)].op = fault
        /\ trace[Len(trace)].res = "fault"
        /\ trace[Len(trace)].idx = i
        /\ \A j \in 1..Len(trace) :
              /\ trace[j].idx <= i
              /\ (j < Len(trace) => trace[j].res # "fault")
        /\ (fault = "plugin_status_cb") => RemovesOf(i) = <<>>
        /\ (fault = "removal_manager_status_cb") =>
              /\ ClsOf(RemovesOf(i)) = RemoveManagerClasses
              /\ \A j \in 1..Len(removal_managers) : removal_managers[j].removes = 1
              /\ Len(CallbacksOf(i)) = manager + 2

\* C17 witness: removal_manager_status_cb raised on the second manager of
\* the first of two plugins.
C17_Witness ==
    /\ fault = "removal_manager_status_cb"
    /\ Len(plugins) = 2 /\ i = 1 /\ manager = 1
    /\ Len(RemovesOf(1)) = 4

====
